---- MODULE Spec2Model ----
(***************************************************************************)
(* Model of src/main.rs: the motion-command reader (read_file) and the two *)
(* interpolators (linear_motion_calculate, rotational_motion_calculate).   *)
(*                                                                         *)
(* Number representation.  An f64 that holds a coordinate, a radius or a   *)
(* stop angle is an integer count of 1/Scale units (Scale = 2: halves,     *)
(* which f64 represents exactly).  A value derived by division is an exact *)
(* rational [num, den].  A formatted "{:.2}" field is the integer number   *)
(* of hundredths it prints.  An angle in radians is an integer count of    *)
(* 1/RadUnit radians.  Signed zero, NaN and values beyond these grids are  *)
(* outside the model.                                                      *)
(***************************************************************************)
EXTENDS Integers, Sequences, FiniteSets, TLC

VARIABLES
    pc,                 \* read_file: "reading" | "returned" | "io_error" | "panicked"
    motions,            \* read_file: the Vec<Motion> built so far
    prev_start,         \* read_file: the cursor
    parts,              \* read_file: the tokens of the line read last
    nread,              \* read_file: number of lines read
    lpc,                \* linear_motion_calculate: "call" | "done"
    start,              \* linear_motion_calculate: argument
    end,                \* linear_motion_calculate: argument
    lin_positions,      \* linear_motion_calculate: returned Vec<String>
    rpc,                \* rotational_motion_calculate: "call" | "loop" | "done" | "aborted"
    rotational_motion,  \* rotational_motion_calculate: argument
    step_angle,         \* rotational_motion_calculate: local
    end_angle,          \* rotational_motion_calculate: local
    angle,              \* rotational_motion_calculate: local
    rot_positions       \* rotational_motion_calculate: Vec<(f64, f64)> built so far

vars == <<pc, motions, prev_start, parts, nread,
          lpc, start, end, lin_positions,
          rpc, rotational_motion, step_angle, end_angle, angle, rot_positions>>

readVars == <<pc, motions, prev_start, parts, nread>>
linVars  == <<lpc, start, end, lin_positions>>
rotVars  == <<rpc, rotational_motion, step_angle, end_angle, angle, rot_positions>>

\* ------------------------------------------------------------------ bounds

\* f64 values are multiples of 1/Scale
Scale == 2
\* lines read_file reads before the end of the file
MaxLines == 3

\* ------------------------------------------------------------- arithmetic

Abs(x) == IF x < 0 THEN -x ELSE x

Max(a, b) == IF a >= b THEN a ELSE b

\* ceil(n / d), d > 0
CeilDiv(n, d) == -((-n) \div d)

\* the f64 0.0
Zero == 0 * Scale

\* the f64 of an integer literal
F64(n) == n * Scale

\* ------------------------------------------------------------ motion types

Origin == <<Zero, Zero, Zero>>

LinearMotion(s, e) == [kind |-> "Linear", start |-> s, end |-> e]

RotationalMotion(c, r, cw, a) ==
    [kind |-> "Rotational", center |-> c, radius |-> r, clockwise |-> cw,
     stop_angle |-> a]

\* a Linear motion that ignores the cursor
NewLinearFromOrigin(s, e) == LinearMotion(Origin, e)

new_linear(s, e) == LinearMotion(s, e)

new_rotational(c, r, cw, a) == RotationalMotion(c, r, cw, a)

\* ------------------------------------------------------------- read_file

\* A token is a non-empty sequence of one-character strings; a line, after
\* trim().split_whitespace(), is a sequence of tokens.
Digit == {"0", "1", "2", "3", "4", "5", "6", "7", "8", "9"}

DigitVal(c) ==
    CASE c = "0" -> 0 [] c = "1" -> 1 [] c = "2" -> 2 [] c = "3" -> 3
      [] c = "4" -> 4 [] c = "5" -> 5 [] c = "6" -> 6 [] c = "7" -> 7
      [] c = "8" -> 8 [] c = "9" -> 9

IsDigits(s) == Len(s) > 0 /\ \A i \in 1..Len(s) : s[i] \in Digit

RECURSIVE DecimalVal(_)
DecimalVal(s) ==
    IF s = <<>> THEN 0
    ELSE 10 * DecimalVal(SubSeq(s, 1, Len(s) - 1)) + DigitVal(s[Len(s)])

None == [ok |-> FALSE, val |-> 0]

Some(v) == [ok |-> TRUE, val |-> v]

\* str::parse::<f64> on the strings of the model's alphabet: an optional
\* sign and one or more decimal digits; anything else is an Err.
parse(s) ==
    IF s # <<>> /\ s[1] \in {"-", "+"}
    THEN IF IsDigits(Tail(s))
         THEN Some((IF s[1] = "-" THEN -1 ELSE 1) * F64(DecimalVal(Tail(s))))
         ELSE None
    ELSE IF IsDigits(s) THEN Some(F64(DecimalVal(s))) ELSE None

\* a fallback other than the one passed
UnwrapOrOne(opt, default) == IF opt.ok THEN opt.val ELSE F64(1)

unwrap_or(opt, default) == IF opt.ok THEN opt.val ELSE default

\* parts[i][1..].parse().unwrap_or(0.0)
Field(tok) == unwrap_or(parse(Tail(tok)), Zero)

LIN == <<"L", "I", "N">>
CW  == <<"C", "W">>
CCW == <<"C", "C", "W">>

\* One iteration of the loop over the lines: the next values of
\* <<pc, motions, prev_start>> for the line whose tokens are p.
ProcessLine(p) ==
    IF Len(p) < 3
    THEN <<"reading", motions, prev_start>>                 \* continue
    ELSE IF p[1] = LIN
    THEN IF Len(p) < 4
         THEN <<"panicked", motions, prev_start>>           \* parts[3] out of bounds
         ELSE LET pt == <<Field(p[2]), Field(p[3]), Field(p[4])>>
              IN  <<"reading", Append(motions, new_linear(prev_start, pt)), pt>>
    ELSE IF p[1] = CW \/ p[1] = CCW
    THEN IF Len(p) < 5
         THEN <<"reading", motions, prev_start>>            \* continue
         ELSE LET center     == <<Field(p[2]), Field(p[3])>>
                  radius     == Field(p[4])
                  stop_angle == Field(p[5])
              IN  <<"reading",
                    Append(motions,
                           new_rotational(center, radius, p[1] = CW, stop_angle)),
                    prev_start>>
    ELSE <<"reading", motions, prev_start>>                 \* Invalid command

\* The lines the input file may hold.
Tagged(tag, body) == <<tag>> \o body

XBodies == {<<"1">>, <<"-", "2">>, <<"a">>}
YBodies == {<<"1">>, <<>>}
RBodies == {<<"2">>, <<"-", "1">>, <<"r">>}
ABodies == {<<"5">>, <<"-">>}

LinLines ==
    {<<LIN, Tagged("X", x), Tagged("Y", y), <<"Z", "2">>>> :
        x \in XBodies, y \in YBodies}

RotLines ==
    {<<k, <<"X", "1">>, <<"Y", "2">>, Tagged("R", r), Tagged("A", a)>> :
        k \in {CW, CCW}, r \in RBodies, a \in ABodies}

OtherLines ==
    { <<<<"F", "O", "O">>, <<"X", "1">>, <<"Y", "1">>, <<"Z", "1">>>>,
      <<LIN, <<"X", "1">>, <<"Y", "1">>, <<"Z", "1", "x">>, <<"F", "9">>>>,
      <<CW, <<"X", "+">>, <<"Y">>, <<"R", "0">>, <<"A", "-", "5">>>> }

Prefixes(L) == UNION {{SubSeq(l, 1, n) : n \in 0..Len(l)} : l \in L}

Lines == Prefixes(LinLines \cup RotLines \cup OtherLines)

InitRead ==
    /\ pc = "reading"
    /\ motions = <<>>
    /\ prev_start = Origin
    /\ parts = <<>>
    /\ nread = 0
    \* the interpolators are not called
    /\ lpc = "call"
    /\ start = Origin
    /\ end = Origin
    /\ lin_positions = <<>>
    /\ rpc = "call"
    /\ rotational_motion = RotationalMotion(<<Zero, Zero>>, F64(1), TRUE, Zero)
    /\ step_angle = 0
    /\ end_angle = 0
    /\ angle = 0
    /\ rot_positions = <<>>

\* for line in reader.lines() { ... }: one line read and processed
ReadLine ==
    /\ pc = "reading"
    /\ nread < MaxLines
    /\ \E p \in Lines :
         LET r == ProcessLine(p)
         IN  /\ parts' = p
             /\ nread' = nread + 1
             /\ pc' = r[1]
             /\ motions' = r[2]
             /\ prev_start' = r[3]

\* let line = line?; with an I/O error
ReadError ==
    /\ pc = "reading"
    /\ nread < MaxLines
    /\ pc' = "io_error"
    /\ UNCHANGED <<motions, prev_start, parts, nread>>

\* end of the file: Ok(motions)
Return ==
    /\ pc = "reading"
    /\ pc' = "returned"
    /\ UNCHANGED <<motions, prev_start, parts, nread>>

\* ----------------------------------------------- linear_motion_calculate

\* coordinates of the start argument: 0 .. MaxStart units of 1/Scale
MaxStart == 1
\* coordinates of the end argument: -MaxEnd .. MaxEnd units of 1/Scale
MaxEnd == 8

\* exact rationals, den > 0
Rat(n, d) == [num |-> n, den |-> d]

RatAdd(a, b) == Rat(a.num * b.den + b.num * a.den, a.den * b.den)

RatMulInt(a, k) == Rat(a.num * k, a.den)

\* the rational value of an f64 of the grid
RatOf(v) == Rat(v, Scale)

\* "{:.2}": the number of hundredths printed, the exact value rounded to
\* the nearest hundredth, ties to even
Format2(r) ==
    LET n == 100 * r.num
        q == n \div r.den
        m == n % r.den
    IN  IF 2 * m > r.den THEN q + 1
        ELSE IF 2 * m = r.den THEN q + (q % 2)
        ELSE q

\* format!("{:.2}, {:.2}, {:.2}", x, y, z)
FormatPoint(x, y, z) == <<Format2(x), Format2(y), Format2(z)>>

\* the step count without the added 1.0
NumStepsNoExtra(max_delta) == CeilDiv(max_delta, Scale)

\* (max_delta.abs() + 1.0).ceil() as usize
num_steps_of(max_delta) == CeilDiv(Abs(max_delta) + F64(1), Scale)

\* a loop that starts at 0
FirstIndexZero == 1 - 1

\* for i in 1..=num_steps
FirstIndex == 1

\* dx / num_steps as f64, or 0.0
StepOf(d, num_steps) ==
    IF num_steps # 0 THEN Rat(d, Scale * num_steps) ELSE Rat(0, 1)

RECURSIVE LinearLoop(_, _, _, _, _)
LinearLoop(i, num_steps, s, steps, acc) ==
    IF i > num_steps THEN acc
    ELSE LET x == RatAdd(RatOf(s[1]), RatMulInt(steps[1], i))
             y == RatAdd(RatOf(s[2]), RatMulInt(steps[2], i))
             z == RatAdd(RatOf(s[3]), RatMulInt(steps[3], i))
         IN  LinearLoop(i + 1, num_steps, s, steps,
                        Append(acc, FormatPoint(x, y, z)))

linear_motion_calculate(s, e) ==
    LET dx == e[1] - s[1]
        dy == e[2] - s[2]
        dz == e[3] - s[3]
        max_delta == Max(Max(Abs(dx), Abs(dy)), Abs(dz))
        num_steps == num_steps_of(max_delta)
        steps == <<StepOf(dx, num_steps), StepOf(dy, num_steps),
                   StepOf(dz, num_steps)>>
    IN  LinearLoop(FirstIndex, num_steps, s, steps, <<>>)

StartPoints == {<<x, y, z>> : x \in 0..MaxStart, y \in 0..MaxStart, z \in 0..MaxStart}

EndPoints ==
    {<<x, y, z>> : x \in -MaxEnd..MaxEnd, y \in -MaxEnd..MaxEnd, z \in -MaxEnd..MaxEnd}

InitLinear ==
    /\ lpc = "call"
    /\ start \in StartPoints
    /\ end \in EndPoints
    /\ lin_positions = <<>>
    \* read_file and the other interpolator are not called
    /\ pc = "returned"
    /\ motions = <<>>
    /\ prev_start = Origin
    /\ parts = <<>>
    /\ nread = 0
    /\ rpc = "call"
    /\ rotational_motion = RotationalMotion(<<Zero, Zero>>, F64(1), TRUE, Zero)
    /\ step_angle = 0
    /\ end_angle = 0
    /\ angle = 0
    /\ rot_positions = <<>>

LinearCalculate ==
    /\ lpc = "call"
    /\ lin_positions' = linear_motion_calculate(start, end)
    /\ lpc' = "done"
    /\ UNCHANGED <<start, end>>


\* ------------------------------------------- rotational_motion_calculate

\* radius argument: -MaxRadius .. MaxRadius (whole numbers)
MaxRadius == 2
\* stop_angle argument: -MaxStop .. MaxStop (whole numbers)
MaxStop == 5
\* elements the positions vector can hold before its allocation fails
MaxPoints == 250

\* an angle in radians is a count of 1/RadUnit radians
RadUnit == 10^6
\* step_angle is a count of 1/AngUnit
AngUnit == 10^3

\* std::f64::consts::PI * 2.0, in 1/RadUnit
FULL_CIRCLE == 6283185
\* std::f64::consts::PI / 180.0, in 1/RadUnit
DEG_TO_RAD == 17453
\* f64::INFINITY, above every finite value of the model
INFINITY == 2^30

\* 5.0 / radius, in 1/AngUnit
StepAngle(radius) ==
    IF radius = Zero THEN INFINITY ELSE (5 * Scale * AngUnit) \div radius

\* a stop angle of the f64 grid read as radians, in 1/RadUnit
Radians(v) == (v * RadUnit) \div Scale

\* DEG_TO_RAD * step_angle, in 1/RadUnit
Increment(step) ==
    IF step = INFINITY THEN INFINITY ELSE (DEG_TO_RAD * step) \div AngUnit

\* angle += increment
AddAngle(a, inc) == IF a = INFINITY \/ inc = INFINITY THEN INFINITY ELSE a + inc

\* (start_angle, end_angle)
AngleRange(rm) ==
    IF rm.clockwise
    THEN <<0, Radians(rm.stop_angle)>>
    ELSE <<FULL_CIRCLE, FULL_CIRCLE - Radians(rm.stop_angle)>>

\* the point (center.0 + radius * angle.cos(), center.1 + radius * angle.sin()),
\* kept as the three values it is computed from
ArcPoint(center, radius, a) == [center |-> center, radius |-> radius, angle |-> a]

Centers == {<<F64(0), F64(0)>>, <<F64(1), F64(2)>>}

RotationalMotions ==
    {RotationalMotion(c, F64(r), cw, F64(a)) :
        c \in Centers, r \in -MaxRadius..MaxRadius, cw \in BOOLEAN,
        a \in -MaxStop..MaxStop}

InitRotational ==
    /\ rpc = "call"
    /\ rotational_motion \in RotationalMotions
    /\ step_angle = 0
    /\ end_angle = 0
    /\ angle = 0
    /\ rot_positions = <<>>
    \* read_file and the other interpolator are not called
    /\ pc = "returned"
    /\ motions = <<>>
    /\ prev_start = Origin
    /\ parts = <<>>
    /\ nread = 0
    /\ lpc = "call"
    /\ start = Origin
    /\ end = Origin
    /\ lin_positions = <<>>

\* from the call to the first test of the while loop
RotationalEnter ==
    /\ rpc = "call"
    /\ step_angle' = StepAngle(rotational_motion.radius)
    /\ angle' = AngleRange(rotational_motion)[1]
    /\ end_angle' = AngleRange(rotational_motion)[2]
    /\ rpc' = "loop"
    /\ UNCHANGED <<rotational_motion, rot_positions>>

\* one iteration of while angle <= end_angle; the push aborts the process
\* when the vector can no longer grow
RotationalIterate ==
    /\ rpc = "loop"
    /\ angle <= end_angle
    /\ IF Len(rot_positions) < MaxPoints
       THEN /\ rot_positions' =
                 Append(rot_positions,
                        ArcPoint(rotational_motion.center,
                                 rotational_motion.radius, angle))
            /\ angle' = AddAngle(angle, Increment(step_angle))
            /\ rpc' = "loop"
       ELSE /\ rpc' = "aborted"
            /\ UNCHANGED <<rot_positions, angle>>
    /\ UNCHANGED <<rotational_motion, step_angle, end_angle>>

\* the loop test fails: positions is returned
RotationalReturn ==
    /\ rpc = "loop"
    /\ ~(angle <= end_angle)
    /\ rpc' = "done"
    /\ UNCHANGED <<rotational_motion, step_angle, end_angle, angle, rot_positions>>



\* ---------------------------------------------------------- specifications

NextRead ==
    \/ ReadLine /\ UNCHANGED <<linVars, rotVars>>
    \/ ReadError /\ UNCHANGED <<linVars, rotVars>>
    \/ Return /\ UNCHANGED <<linVars, rotVars>>

SpecRead == InitRead /\ [][NextRead]_vars

NextLinear == LinearCalculate /\ UNCHANGED <<readVars, rotVars>>

SpecLinear == InitLinear /\ [][NextLinear]_vars

NextRotational ==
    \/ RotationalEnter /\ UNCHANGED <<readVars, linVars>>
    \/ RotationalIterate /\ UNCHANGED <<readVars, linVars>>
    \/ RotationalReturn /\ UNCHANGED <<readVars, linVars>>

SpecRotational == InitRotational /\ [][NextRotational]_vars

\* the function is straight-line sequential code: a step that can be taken is taken
FairSpecRotational == SpecRotational /\ WF_vars(NextRotational)

\* ------------------------------------------------------------ properties

\* tokens the keyword of line p requires
Required(p) == IF p[1] = LIN THEN 4 ELSE 5

ShortForKeyword(p) ==
    /\ p # <<>>
    /\ p[1] \in {LIN, CW, CCW}
    /\ Len(p) < Required(p)

\* C1: a line with fewer tokens than its keyword requires (LIN 4, CW/CCW 5)
\* is rejected: no motion is appended, the cursor is unchanged and read_file
\* goes on to the next line.
C1_ShortLineRejected ==
    [][(nread' = nread + 1 /\ ShortForKeyword(parts'))
         => (motions' = motions /\ prev_start' = prev_start /\ pc' = "reading")]_vars

IsLinear(m) == m.kind = "Linear"

LinearMotions == SelectSeq(motions, IsLinear)

\* C2: the first Linear motion starts at the origin, every later one starts
\* where the Linear motion before it ends, and the cursor is the end of the
\* last Linear motion (the origin when there is none), whatever other lines
\* were read in between.
C2_CursorChain ==
    /\ LinearMotions # <<>> => LinearMotions[1].start = Origin
    /\ \A k \in 2..Len(LinearMotions) :
         LinearMotions[k].start = LinearMotions[k - 1].end
    /\ prev_start = IF LinearMotions = <<>> THEN Origin
                    ELSE LinearMotions[Len(LinearMotions)].end

C2_Witness ==
    /\ Len(motions) = 3
    /\ motions[1].kind = "Linear" /\ motions[1].end = <<F64(-2), F64(1), F64(2)>>
    /\ motions[2].kind = "Rotational"
    /\ motions[3].kind = "Linear" /\ motions[3].start = motions[1].end
    /\ motions[3].end # motions[3].start

\* the value a tagged token stands for: its number, or 0.0 when the text
\* after the tag is no number
Expected(tok) ==
    LET r == parse(Tail(tok)) IN IF r.ok THEN r.val ELSE Zero

\* C9: after a LIN, CW or CCW line with enough tokens the motion appended
\* last carries, field by field, the parsed number of each tagged token and
\* 0.0 for each token that does not parse; for LIN the cursor is that point.
C9_ParseFailureDefaultsToZero ==
    (nread > 0 /\ pc \in {"reading", "returned"} /\ parts # <<>>) =>
        /\ (parts[1] = LIN /\ Len(parts) >= 4) =>
              /\ motions # <<>>
              /\ motions[Len(motions)].kind = "Linear"
              /\ motions[Len(motions)].end =
                    <<Expected(parts[2]), Expected(parts[3]), Expected(parts[4])>>
              /\ prev_start = motions[Len(motions)].end
        /\ (parts[1] \in {CW, CCW} /\ Len(parts) >= 5) =>
              /\ motions # <<>>
              /\ motions[Len(motions)] =
                    RotationalMotion(<<Expected(parts[2]), Expected(parts[3])>>,
                                     Expected(parts[4]), parts[1] = CW,
                                     Expected(parts[5]))

C9_Witness ==
    /\ pc = "reading"
    /\ parts = <<LIN, <<"X", "a">>, <<"Y">>, <<"Z", "2">>>>
    /\ motions # <<>>
    /\ motions[Len(motions)].end = <<Zero, Zero, F64(2)>>
    /\ prev_start = <<Zero, Zero, F64(2)>>

\* the text "{:.2}, {:.2}, {:.2}" of a point of the grid
PointText(p) == FormatPoint(RatOf(p[1]), RatOf(p[2]), RatOf(p[3]))

\* C3: the first position returned by linear_motion_calculate is start and
\* the last is end.
C3_FirstIsStartLastIsEnd ==
    lpc = "done" =>
        /\ lin_positions # <<>>
        /\ lin_positions[1] = PointText(start)
        /\ lin_positions[Len(lin_positions)] = PointText(end)

MaxAbsDelta ==
    Max(Max(Abs(end[1] - start[1]), Abs(end[2] - start[2])), Abs(end[3] - start[3]))

C5_ZeroLength ==
    (lpc = "done" /\ start = end) => lin_positions = <<PointText(start)>>

C5_Witness ==
    /\ lpc = "done"
    /\ start = <<1, 1, 0>>
    /\ end = start
    /\ lin_positions = <<<<100 \div Scale, 100 \div Scale, 0>>>>

\* the sampled angle, reduced to one turn
Turn(a) == a % FULL_CIRCLE

\* C6: with radius > 0 and stop angle s >= 0 degrees the arc is sampled at
\* 0, 5, 10, ... degrees up to the largest multiple of 5 not above s:
\* floor(s / 5) + 1 points, whatever the radius.
C6_FiveDegreeSampling ==
    (rpc = "done" /\ rotational_motion.radius > Zero
                  /\ rotational_motion.stop_angle >= Zero) =>
        /\ Len(rot_positions) = rotational_motion.stop_angle \div F64(5) + 1
        /\ \A k \in 1..Len(rot_positions) :
             Turn(rot_positions[k].angle) = Turn((k - 1) * 5 * DEG_TO_RAD)

\* C7: with radius > 0 the returned sequence holds at least one point, the
\* point at angle 0, for both directions and every stop angle.
C7_AtLeastOnePoint ==
    (rpc = "done" /\ rotational_motion.radius > Zero) =>
        /\ rot_positions # <<>>
        /\ Turn(rot_positions[1].angle) = 0

\* C8: with radius <= 0 the motion is rejected with InvalidRadius and no
\* point is emitted.
C8_InvalidRadiusRejected ==
    (rotational_motion.radius <= Zero /\ rpc # "call") =>
        /\ rpc = "invalid_radius"
        /\ rot_positions = <<>>

\* The vector's capacity is reached only by a loop that cannot exit: every
\* call that aborts has a negative radius, and every call that returns
\* stays below the capacity.
AbortsOnlyForNegativeRadius ==
    /\ rpc = "aborted" => rotational_motion.radius < Zero
    /\ rpc = "done" => Len(rot_positions) < MaxPoints

\* C10: rotational_motion_calculate returns for every motion read_file can
\* produce: the loop's angle eventually exceeds the end angle.
C10_Terminates == <>(rpc = "done")

====
